---- MODULE Spec2Model ----
(***************************************************************************)
(* Model of yawnnn/c-vector: the arena allocator (src/src/arena.c:1-69)    *)
(* and the type-erased dynamic array Vec (src/src/arena.c:70-349).         *)
(*                                                                         *)
(* A Vec is the record [size, cap, len, ptr]; ptr is modelled by the       *)
(* bytes of the heap block it points to (<<>> while nothing is             *)
(* allocated).  size_t arithmetic is done modulo Mod.  An allocation       *)
(* succeeds only up to MaxBytes bytes; requests beyond that are not        *)
(* modelled (the code never checks malloc's result).  Within a call a     *)
(* byte of a fresh block, or one read outside the block, is Indet; when    *)
(* the call returns every such byte is an arbitrary byte (junk), in the    *)
(* block and in the caller's buffer alike.  A write or read outside the    *)
(* block sets ub.                                                          *)
(***************************************************************************)
EXTENDS Integers, Sequences, FiniteSets, TLC

\* ------------------------------------------------------------ bounds
\* width of size_t in the model
Bits == 5
\* largest block malloc/realloc hands out, and largest capacity reached
MaxBytes == 4
\* most elements a caller passes to, or asks from, one bulk call
MaxN == 2
Mod == 2 ^ Bits
\* the byte values told apart
Byte == {0, 1}
Sizes == {1, 2}
\* argument values: the small ones and the two largest of the width
Args == (0 .. (MaxBytes + 1)) \cup {Mod - 2, Mod - 1}
Counts == 0 .. MaxN
GROWTH_FACTOR == 2

Add(a, b) == (a + b) % Mod
Sub(a, b) == ((a - b) + Mod) % Mod
Mul(a, b) == (a * b) % Mod

\* a byte whose value the program has not fixed
Indet == 0 - 1
JunkSeqs(n) == [1 .. n -> Byte]

\* ------------------------------------------------------------ memory
\* byte k (0-based) of an access that starts off bytes after the block's
\* first byte lies inside the block b
InBlock(b, off, k) == ((off + k) % Mod) < Len(b)

OutOfBlock(b, off, count) == \E k \in 0 .. (count - 1) : ~InBlock(b, off, k)

\* count bytes as they lie in memory at offset off
MemRead(b, off, count) ==
    [k \in 1 .. count |->
        IF InBlock(b, off, k - 1) THEN b[((off + (k - 1)) % Mod) + 1] ELSE Indet]

\* the block after data is stored at offset off (bytes falling outside the
\* block land elsewhere in the heap)
MemWrite(b, off, data) ==
    [j \in 1 .. Len(b) |->
        IF \E k \in 1 .. Len(data) : ((off + (k - 1)) % Mod) = j - 1
        THEN data[(CHOOSE k \in 1 .. Len(data) : ((off + (k - 1)) % Mod) = j - 1)]
        ELSE b[j]]

\* the bytes found in memory: each Indet cell holds some byte
Resolve(cells, junk) ==
    [k \in 1 .. Len(cells) |-> IF cells[k] = Indet THEN junk[k] ELSE cells[k]]

JunkFor(cells) ==
    IF \E k \in 1 .. Len(cells) : cells[k] = Indet
    THEN {j \in JunkSeqs(Len(cells)) :
             \A k \in 1 .. Len(cells) : cells[k] # Indet => j[k] = 0}
    ELSE {[k \in 1 .. Len(cells) |-> 0]}

\* memcmp(a, b, Len(a)): the sign of the first difference, bytes compared as
\* unsigned char (the magnitude memcmp returns is not specified)
Memcmp(a, b) ==
    IF \E k \in 1 .. Len(a) : a[k] # b[k]
    THEN LET k == CHOOSE i \in 1 .. Len(a) :
                      a[i] # b[i] /\ \A j \in 1 .. (i - 1) : a[j] = b[j]
         IN  IF a[k] < b[k] THEN 0 - 1 ELSE 1
    ELSE 0

\* ------------------------------------------------------------ private methods
v_at(v, pos) == Mul(pos, v.size)

v_set(v, pos, n) ==
    LET count == Mul(n, v.size)
    IN  [v EXCEPT !.ptr = MemWrite(v.ptr, v_at(v, pos), [k \in 1 .. count |-> 0]),
                  !.ub = v.ub \/ OutOfBlock(v.ptr, v_at(v, pos), count)]

\* source: the caller's bytes; only the first n * size of them are read
v_cpy(v, pos, source, n) ==
    LET count == Mul(n, v.size)
    IN  [v EXCEPT !.ptr = MemWrite(v.ptr, v_at(v, pos), SubSeq(source, 1, count)),
                  !.ub = v.ub \/ OutOfBlock(v.ptr, v_at(v, pos), count)]

\* the cells v_cpy_to copies to dest
v_cpy_to(v, pos, n) == MemRead(v.ptr, v_at(v, pos), Mul(n, v.size))

v_cpy_to_ub(v, pos, n) == OutOfBlock(v.ptr, v_at(v, pos), Mul(n, v.size))

\* the block after count bytes are copied one by one, lowest address first
RECURSIVE CopyForward(_, _, _, _, _)
CopyForward(b, dst, src, count, k) ==
    IF k >= count THEN b
    ELSE CopyForward(
             IF InBlock(b, dst, k) /\ InBlock(b, src, k)
             THEN [b EXCEPT ![((dst + k) % Mod) + 1] = b[((src + k) % Mod) + 1]]
             ELSE b,
             dst, src, count, k + 1)

\* v_move done with a forward byte copy instead of memmove
v_move_forward(v, pos, source, n) ==
    [v EXCEPT !.ptr = CopyForward(v.ptr, v_at(v, pos), source, Mul(n, v.size), 0)]

\* source is an offset into the vector's own block (memmove)
v_move(v, pos, source, n) ==
    LET count == Mul(n, v.size)
    IN  [v EXCEPT !.ptr = MemWrite(v.ptr, v_at(v, pos), MemRead(v.ptr, source, count)),
                  !.ub = v.ub \/ OutOfBlock(v.ptr, v_at(v, pos), count)
                              \/ OutOfBlock(v.ptr, source, count)]

\* v_cmp that compares n bytes instead of n elements
v_cmp_bytes(v, pos, ptr2, n) ==
    Memcmp(MemRead(v.ptr, v_at(v, pos), n), SubSeq(ptr2, 1, n))

\* ptr2: the bytes at the second pointer
v_cmp(v, pos, ptr2, n) ==
    Memcmp(MemRead(v.ptr, v_at(v, pos), Mul(n, v.size)), SubSeq(ptr2, 1, Mul(n, v.size)))

v_alloc(v, n) ==
    [v EXCEPT !.ptr = [k \in 1 .. Mul(n, v.size) |-> Indet], !.cap = n]

v_realloc(v, n) ==
    [v EXCEPT !.ptr = [k \in 1 .. Mul(n, v.size) |->
                          IF k <= Len(v.ptr) THEN v.ptr[k] ELSE Indet],
              !.cap = n]

\* v_resize that always asks for exactly n slots
v_resize_exact(v, n) ==
    IF v.cap # 0
    THEN (IF n # v.cap THEN v_realloc(v, n) ELSE v)
    ELSE v_alloc(v, n)

v_resize(v, n) ==
    IF v.cap # 0
    THEN IF n < v.cap \/ n > Mul(v.cap, GROWTH_FACTOR)
         THEN v_realloc(v, n)
         ELSE IF n > v.cap
              THEN v_realloc(v, Mul(v.cap, GROWTH_FACTOR))
              ELSE v
    ELSE v_alloc(v, IF n > GROWTH_FACTOR THEN n ELSE GROWTH_FACTOR)

\* ------------------------------------------------------------ public methods
\* ptr is left as it was: with cap = 0 no code reads it, so it is shown empty
vec_new(v, size) ==
    [v EXCEPT !.cap = 0, !.len = 0, !.size = size, !.ptr = << >>, !.ub = FALSE]

\* vec_reserve that grows by the factor whatever was asked
vec_reserve_double(v, n) ==
    IF n > v.cap
    THEN (IF v.cap # 0 THEN v_realloc(v, Mul(v.cap, GROWTH_FACTOR))
          ELSE v_alloc(v, GROWTH_FACTOR))
    ELSE v

vec_reserve(v, n) == IF n > v.cap THEN v_resize(v, n) ELSE v

vec_new_with(v, size, n) == vec_reserve(vec_new(v, size), n)

vec_init(v, size, n) == [v_set(vec_new_with(v, n, size), 0, n) EXCEPT !.len = n]

vec_insert_n(v, elems, n, pos) ==
    IF pos <= v.len
    THEN LET r == vec_reserve(v, Add(v.len, n))
             m == v_move(r, Add(pos, n), v_at(r, pos), Sub(r.len, pos))
             c == v_cpy(m, pos, elems, n)
         IN  [c EXCEPT !.len = Add(c.len, n)]
    ELSE v

vec_from(v, size, arr, n) == vec_insert_n(vec_new(v, size), arr, 0, n)

vec_clear(v) == [v EXCEPT !.cap = 0, !.len = 0, !.ptr = << >>]

\* vec_shrink_to_fit that keeps the block of an array without elements
vec_shrink_to_fit_nonempty(v) == IF v.cap # 0 /\ v.len # 0 THEN v_resize(v, v.len) ELSE v

vec_shrink_to_fit(v) == IF v.cap # 0 THEN v_resize(v, v.len) ELSE v

vec_insert(v, elem, pos) == vec_insert_n(v, elem, 1, pos)

vec_push(v, elem) == vec_insert(v, elem, v.len)

\* vec_remove_n that copies the span out after the gap was closed
vec_remove_n_late_copy(v, pos, hasElems, n) ==
    IF Sub(Add(pos, n), 1) < v.len
    THEN LET m == IF Add(pos, n) < v.len
                  THEN v_move(v, pos, v_at(v, Add(pos, n)), Sub(v.len, Add(pos, n)))
                  ELSE v
         IN  [v |-> [m EXCEPT !.len = Sub(m.len, n)],
              out |-> IF hasElems THEN v_cpy_to(m, pos, n) ELSE << >>,
              wrote |-> hasElems]
    ELSE [v |-> v, out |-> << >>, wrote |-> FALSE]

\* vec_remove_n that moves one element too few when closing the gap
vec_remove_n_short_move(v, pos, hasElems, n) ==
    IF Sub(Add(pos, n), 1) < v.len
    THEN LET m == IF Add(pos, n) < v.len
                  THEN v_move(v, pos, v_at(v, Add(pos, n)),
                              Sub(Sub(v.len, Add(pos, n)), 1))
                  ELSE v
         IN  [v |-> [m EXCEPT !.len = Sub(m.len, n)],
              out |-> IF hasElems THEN v_cpy_to(v, pos, n) ELSE << >>,
              wrote |-> hasElems]
    ELSE [v |-> v, out |-> << >>, wrote |-> FALSE]

\* [v |-> the vector after the call, out |-> the cells copied to elems,
\*  wrote |-> elems was written]
vec_remove_n(v, pos, hasElems, n) ==
    IF Sub(Add(pos, n), 1) < v.len
    THEN LET m == IF Add(pos, n) < v.len
                  THEN v_move(v, pos, v_at(v, Add(pos, n)), Sub(v.len, Add(pos, n)))
                  ELSE v
         IN  [v |-> [m EXCEPT !.len = Sub(m.len, n),
                              !.ub = m.ub \/ (hasElems /\ v_cpy_to_ub(v, pos, n))],
              out |-> IF hasElems THEN v_cpy_to(v, pos, n) ELSE << >>,
              wrote |-> hasElems]
    ELSE [v |-> v, out |-> << >>, wrote |-> FALSE]

vec_remove(v, pos, hasElem) == vec_remove_n(v, pos, hasElem, 1)

\* vec_pop that hands out the first element instead of the last
vec_pop_front(v, hasElem) ==
    IF v.len # 0
    THEN [v |-> [v EXCEPT !.len = Sub(v.len, 1),
                          !.ub = v.ub \/ (hasElem /\ v_cpy_to_ub(v, 0, 1))],
          out |-> IF hasElem THEN v_cpy_to(v, 0, 1) ELSE << >>,
          wrote |-> hasElem]
    ELSE [v |-> v, out |-> << >>, wrote |-> FALSE]

vec_pop(v, hasElem) ==
    IF v.len # 0
    THEN [v |-> [v EXCEPT !.len = Sub(v.len, 1),
                          !.ub = v.ub \/ (hasElem /\ v_cpy_to_ub(v, Sub(v.len, 1), 1))],
          out |-> IF hasElem THEN v_cpy_to(v, Sub(v.len, 1), 1) ELSE << >>,
          wrote |-> hasElem]
    ELSE [v |-> v, out |-> << >>, wrote |-> FALSE]

vec_get(v, pos) ==
    IF pos < v.len
    THEN [v |-> [v EXCEPT !.ub = v.ub \/ v_cpy_to_ub(v, pos, 1)],
          out |-> v_cpy_to(v, pos, 1), wrote |-> TRUE]
    ELSE [v |-> v, out |-> << >>, wrote |-> FALSE]

\* vec_set without the range check
vec_set_unchecked(v, elem, pos) == v_cpy(v, pos, elem, 1)

vec_set(v, elem, pos) == IF pos < v.len THEN v_cpy(v, pos, elem, 1) ELSE v

\* the address held by v->ptr: some address that is not NULL, with room for
\* every offset above it
BLOCK == Mod

\* the pointer returned: the address of element pos, or NULL
vec_at(v, pos) == IF pos < v.len THEN BLOCK + v_at(v, pos) ELSE 0

\* [v |-> the vector after the call, tmp |-> the cells left in tmp].  No
\* position is checked.  With pos1 = pos2 the second copy has source =
\* destination and leaves the element as it is.
vec_swap(v, pos1, pos2) ==
    LET tmp == v_cpy_to(v, pos1, 1)
        a == v_cpy(v, pos1, MemRead(v.ptr, v_at(v, pos2), v.size), 1)
        b == v_cpy(a, pos2, tmp, 1)
    IN  [v |-> [b EXCEPT !.ub = b.ub \/ v_cpy_to_ub(v, pos1, 1)
                                     \/ v_cpy_to_ub(v, pos2, 1)],
         tmp |-> tmp]

\* the two for loops of vec_sort, from the point where the inner loop tests
\* j < v->len.  i and j are int; the lengths of the model are far below
\* INT_MAX, so the conversions in i < v->len change nothing.
RECURSIVE SortLoop(_, _, _, _)
SortLoop(v, i, j, order) ==
    IF ~(i < v.len) THEN v
    ELSE IF ~(j < v.len) THEN SortLoop(v, i + 1, i + 2, order)
    ELSE SortLoop(IF v_cmp(v, i, MemRead(v.ptr, v_at(v, j), v.size), 1) * order > 0
                  THEN vec_swap(v, i, j).v
                  ELSE v,
                  i, j + 1, order)

\* pval is the local buffer val: every size of the model is below sizeof(val)
vec_sort(v, order) == SortLoop(v, 0, 1, order)

YES == 1
NO == 0

\* vec_iter that does not advance the cursor
vec_iter_stuck(isNull, v, i) ==
    IF ~isNull
    THEN IF i < v.len
         THEN LET g == vec_get(v, i)
              IN  [i |-> i, ret |-> YES, v |-> g.v, out |-> g.out, wrote |-> g.wrote]
         ELSE [i |-> i, ret |-> NO, v |-> v, out |-> << >>, wrote |-> FALSE]
    ELSE [i |-> 0, ret |-> NO, v |-> v, out |-> << >>, wrote |-> FALSE]

\* vec_iter that starts over by itself once the array is exhausted
vec_iter_rewind(isNull, v, i) ==
    IF ~isNull
    THEN IF i < v.len
         THEN LET g == vec_get(v, i)
              IN  [i |-> Add(i, 1), ret |-> YES, v |-> g.v, out |-> g.out, wrote |-> g.wrote]
         ELSE [i |-> 0, ret |-> NO, v |-> v, out |-> << >>, wrote |-> FALSE]
    ELSE [i |-> 0, ret |-> NO, v |-> v, out |-> << >>, wrote |-> FALSE]

\* isNull: the caller passed no array; i: the static cursor at entry.
\* [i |-> the cursor at exit, ret |-> the value returned, v |-> the vector
\*  after the call, out |-> the cells copied to elem, wrote |-> elem was written]
vec_iter(isNull, v, i) ==
    IF ~isNull
    THEN IF i < v.len
         THEN LET g == vec_get(v, i)
              IN  [i |-> Add(i, 1), ret |-> YES, v |-> g.v, out |-> g.out, wrote |-> g.wrote]
         ELSE [i |-> i, ret |-> NO, v |-> v, out |-> << >>, wrote |-> FALSE]
    ELSE [i |-> 0, ret |-> NO, v |-> v, out |-> << >>, wrote |-> FALSE]

\* ------------------------------------------------------------ arena
\* A node lives at an address of Addrs; heap maps each address to the node
\* there: live (allocated), next (the link), data (the payload bytes, which
\* start HDR bytes after the node's address).
NULL == 0
\* sizeof(ArenaNode)
HDR == 8
Addrs == {16, 32, 48, 64}
\* largest payload asked for
MaxPayload == 1
Payloads == 0 .. MaxPayload

NoNode == [live |-> FALSE, next |-> NULL, data |-> << >>]

FreeAddrs(hp) == {a \in Addrs : ~hp[a].live}

\* the nodes reached from a, in list order
RECURSIVE ListFrom(_, _)
ListFrom(a, hp) == IF a = NULL THEN << >> ELSE <<a>> \o ListFrom(hp[a].next, hp)

\* malloc(sizeof(ArenaNode) + bytes) returning the block at address a
Malloc(hp, a, bytes) ==
    [hp EXCEPT ![a] = [live |-> TRUE, next |-> Indet,
                       data |-> [k \in 1 .. bytes |-> Indet]]]

\* realloc(old, sizeof(ArenaNode) + bytes) returning the block at address a
\* (a = old, or a free address: the content moves and old is released)
Realloc(hp, old, a, bytes) ==
    LET node == [live |-> TRUE, next |-> hp[old].next,
                 data |-> [k \in 1 .. bytes |->
                              IF k <= Len(hp[old].data) THEN hp[old].data[k] ELSE Indet]]
    IN  IF a = old THEN [hp EXCEPT ![a] = node]
        ELSE [hp EXCEPT ![old] = NoNode, ![a] = node]

arena_init == [head |-> NULL]

\* [head, heap |-> the arena after the call, ret |-> the pointer returned]
arena_alloc(hd, hp, bytes, a) ==
    LET next == a
        h1 == Malloc(hp, next, bytes)
        h2 == [h1 EXCEPT ![next].next = hd]
    IN  [head |-> next, heap |-> h2, ret |-> next + HDR]

\* the while loop of arena_realloc: [prev, curr] when it ends
RECURSIVE Scan(_, _, _, _)
Scan(prev, curr, needle, hp) ==
    IF curr # NULL /\ curr # needle
    THEN Scan(curr, hp[curr].next, needle, hp)
    ELSE [prev |-> prev, curr |-> curr]

\* arena_realloc that hands the pointer back when it finds no node for it
arena_realloc_echo(hd, hp, bytes, prev_allocation, a) ==
    IF hd # NULL
    THEN LET needle == prev_allocation - HDR
             f == Scan(NULL, hd, needle, hp)
         IN  IF f.curr # NULL
             THEN LET next == hp[f.curr].next
                      needle2 == a
                      h1 == Realloc(hp, needle, needle2, bytes)
                      h2 == [h1 EXCEPT ![needle2].next = next]
                      h3 == IF f.prev # NULL
                            THEN [h2 EXCEPT ![f.prev].next = needle2]
                            ELSE h2
                  IN  [head |-> IF f.prev # NULL THEN hd ELSE needle2,
                       heap |-> h3,
                       ret |-> next + HDR]
             ELSE [head |-> hd, heap |-> hp, ret |-> prev_allocation]
    ELSE [head |-> hd, heap |-> hp, ret |-> prev_allocation]

\* arena_realloc that does not store the moved node's address in its
\* predecessor or in head
arena_realloc_no_relink(hd, hp, bytes, prev_allocation, a) ==
    IF hd # NULL
    THEN LET needle == prev_allocation - HDR
             f == Scan(NULL, hd, needle, hp)
         IN  IF f.curr # NULL
             THEN LET next == hp[f.curr].next
                      needle2 == a
                      h1 == Realloc(hp, needle, needle2, bytes)
                      h2 == [h1 EXCEPT ![needle2].next = next]
                  IN  [head |-> hd, heap |-> h2, ret |-> next + HDR]
             ELSE [head |-> hd, heap |-> hp, ret |-> NULL]
    ELSE [head |-> hd, heap |-> hp, ret |-> NULL]

arena_realloc(hd, hp, bytes, prev_allocation, a) ==
    IF hd # NULL
    THEN LET needle == prev_allocation - HDR
             f == Scan(NULL, hd, needle, hp)
         IN  IF f.curr # NULL
             THEN LET next == hp[f.curr].next
                      needle2 == a
                      h1 == Realloc(hp, needle, needle2, bytes)
                      h2 == [h1 EXCEPT ![needle2].next = next]
                      h3 == IF f.prev # NULL
                            THEN [h2 EXCEPT ![f.prev].next = needle2]
                            ELSE h2
                  IN  [head |-> IF f.prev # NULL THEN hd ELSE needle2,
                       heap |-> h3,
                       ret |-> next + HDR]
             ELSE [head |-> hd, heap |-> hp, ret |-> NULL]
    ELSE [head |-> hd, heap |-> hp, ret |-> NULL]

\* the while loop of arena_free stopped after its first round
FreeWalkOnce(next, hp) == IF next # NULL THEN <<next>> ELSE << >>

\* the addresses the while loop of arena_free passes to free(), in order
RECURSIVE FreeWalk(_, _)
FreeWalk(next, hp) ==
    IF next # NULL THEN <<next>> \o FreeWalk(hp[next].next, hp) ELSE << >>

arena_free(hd, hp) ==
    IF hd # NULL
    THEN LET freed == FreeWalk(hp[hd].next, hp) \o <<hd>>
         IN  [head |-> NULL,
              heap |-> [x \in Addrs |->
                           IF \E i \in 1 .. Len(freed) : freed[i] = x
                           THEN NoNode ELSE hp[x]],
              freed |-> freed]
    ELSE [head |-> hd, heap |-> hp, freed |-> << >>]

\* ------------------------------------------------------------ state
\* v       the Vec object (size, cap, len), the block behind ptr, and ub:
\*         an access outside the block has happened
\* stride0 the element size the caller gave when it created v
\* call    the call that has just returned: its arguments and what it stored
\*         in the caller's buffer; op = "none" between calls
\* pre     v as it was when that call was made
\* hist    the call made right before it and its pre, kept when the two calls
\*         form a pair that is followed up (see Chained)
\* head    arena->head
\* heap    the nodes of the arena, by address
\* acall   the arena call that has just returned, with its result; after is
\*         the call made right before it, kept for arena_free; arena_alloc
\* apre    head and heap as they were when that call was made
\* w       a second Vec object of the same caller, not yet constructed at
\*         the start
\* cursor  the static index i of vec_iter
\* run     the number of vec_iter calls made on v since the cursor was reset,
\*         NoRun once v was modified or vec_iter was called on w since then
VARIABLES v, stride0, call, pre, hist, head, heap, acall, apre, w, cursor, run

vvars == <<v, stride0, call, pre, hist>>
avars == <<head, heap, acall, apre>>
ivars == <<w, cursor, run>>
vars == <<vvars, avars, ivars>>

NoVec == [size |-> 0, cap |-> 0, len |-> 0, ptr |-> << >>, ub |-> FALSE]

Call(op, size, n, pos, elems, dst, out, wrote) ==
    [op |-> op, size |-> size, n |-> n, pos |-> pos, elems |-> elems,
     dst |-> dst, out |-> out, wrote |-> wrote,
     pos2 |-> 0, order |-> 0, ret |-> 0, obj |-> "v"]

NoCall == Call("none", 0, 0, 0, << >>, FALSE, << >>, FALSE)

Idle == call.op = "none"

\* the allocator serves the request behind nv
Fits(nv) == nv.cap <= MaxBytes /\ nv.cap * nv.size <= MaxBytes

\* call pairs whose first call is remembered: an insertion undone by the
\* removal of the same span, a push undone by a pop
Chained(c) ==
    \/ /\ call.op = "vec_insert_n" /\ c.op = "vec_remove_n"
       /\ c.pos = call.pos /\ c.n = call.n
    \/ call.op = "vec_push" /\ c.op = "vec_pop"

\* the caller may make the call op now
MayCall(op) ==
    \/ Idle
    \/ call.op = "vec_insert_n" /\ op = "vec_remove_n"
    \/ call.op = "vec_push" /\ op = "vec_pop"

\* no run of vec_iter calls is being followed
NoRun == 0 - 1

Returns(c, nv, before) ==
    /\ Idle \/ Chained(c)
    /\ \E junk \in JunkFor(nv.ptr) : v' = [nv EXCEPT !.ptr = Resolve(nv.ptr, junk)]
    /\ call' = c
    /\ pre' = before
    /\ hist' = IF Idle THEN << >> ELSE <<[call |-> call, pre |-> pre]>>
    /\ run' = IF nv = v THEN run ELSE NoRun
    /\ UNCHANGED <<avars, w, cursor>>

\* a call on the object v.  The model stops following an object once an
\* access fell outside its block or its length exceeds its capacity.
Method(c, nv) ==
    /\ ~v.ub /\ v.len <= v.cap
    /\ Fits(nv)
    /\ Returns(c, nv, v)
    /\ UNCHANGED stride0

\* a constructor takes over the caller's struct, whatever it held
Constructor(c, nv) == Idle /\ Fits(nv) /\ Returns(c, nv, NoVec) /\ stride0' = c.size

ACall(op, bytes, p, ret, freed) ==
    [op |-> op, bytes |-> bytes, p |-> p, ret |-> ret, freed |-> freed,
     after |-> "none"]

NoACall == ACall("none", 0, NULL, NULL, << >>)

NoArena == [head |-> NULL, heap |-> [a \in Addrs |-> NoNode]]

AIdle == acall.op = "none"

Init ==
    /\ \E size \in Sizes : v = vec_new(NoVec, size) /\ stride0 = size
    /\ call = NoCall
    /\ pre = NoVec
    /\ hist = << >>
    /\ head = arena_init.head
    /\ heap = NoArena.heap
    /\ acall = NoACall
    /\ apre = NoArena
    /\ w = NoVec
    /\ cursor = 0
    /\ run = NoRun

\* the caller goes on: its arguments and buffers of the call are gone
Return ==
    /\ ~Idle
    /\ call' = NoCall /\ pre' = NoVec /\ hist' = << >>
    /\ UNCHANGED <<v, stride0, avars, ivars>>

VecNew ==
    /\ MayCall("vec_new")
    /\ \E size \in Sizes :
        Constructor(Call("vec_new", size, 0, 0, << >>, FALSE, << >>, FALSE),
                    vec_new(v, size))

VecNewWith ==
    /\ MayCall("vec_new_with")
    /\ \E size \in Sizes, n \in Args :
        Constructor(Call("vec_new_with", size, n, 0, << >>, FALSE, << >>, FALSE),
                    vec_new_with(v, size, n))

VecInit ==
    /\ MayCall("vec_init")
    /\ \E size \in Sizes, n \in Args :
        Constructor(Call("vec_init", size, n, 0, << >>, FALSE, << >>, FALSE),
                    vec_init(v, size, n))

VecFrom ==
    /\ MayCall("vec_from")
    /\ \E size \in Sizes, n \in Counts :
        \E arr \in JunkSeqs(n * size) :
            Constructor(Call("vec_from", size, n, 0, arr, FALSE, << >>, FALSE),
                        vec_from(v, size, arr, n))

VecClear ==
    /\ MayCall("vec_clear")
    /\ Method(Call("vec_clear", 0, 0, 0, << >>, FALSE, << >>, FALSE), vec_clear(v))

VecReserve ==
    /\ MayCall("vec_reserve")
    /\ \E n \in Args :
        Method(Call("vec_reserve", 0, n, 0, << >>, FALSE, << >>, FALSE),
               vec_reserve(v, n))

VecShrinkToFit ==
    /\ MayCall("vec_shrink_to_fit")
    /\ Method(Call("vec_shrink_to_fit", 0, 0, 0, << >>, FALSE, << >>, FALSE),
           vec_shrink_to_fit(v))

VecPush ==
    /\ MayCall("vec_push")
    /\ \E elem \in JunkSeqs(v.size) :
        Method(Call("vec_push", 0, 1, v.len, elem, FALSE, << >>, FALSE),
               vec_push(v, elem))

VecInsertN ==
    /\ MayCall("vec_insert_n")
    /\ \E n \in Counts, pos \in Args :
        \E elems \in JunkSeqs(n * v.size) :
            Method(Call("vec_insert_n", 0, n, pos, elems, FALSE, << >>, FALSE),
                   vec_insert_n(v, elems, n, pos))

\* the caller's buffer elems, when given, has room for n elements
VecRemoveN ==
    /\ MayCall("vec_remove_n")
    /\ \E pos \in Args, n \in Args, hasElems \in BOOLEAN :
        LET r == vec_remove_n(v, pos, hasElems, n)
        IN  /\ Idle \/ (pos = call.pos /\ n = call.n)
            /\ hasElems => n * v.size <= MaxBytes
            /\ \E junk \in JunkFor(r.out) :
                   Method(Call("vec_remove_n", 0, n, pos, << >>, hasElems,
                               Resolve(r.out, junk), r.wrote), r.v)

VecPop ==
    /\ MayCall("vec_pop")
    /\ \E hasElem \in BOOLEAN :
        LET r == vec_pop(v, hasElem)
        IN  \E junk \in JunkFor(r.out) :
                Method(Call("vec_pop", 0, 1, 0, << >>, hasElem,
                            Resolve(r.out, junk), r.wrote), r.v)

VecGet ==
    /\ MayCall("vec_get")
    /\ \E pos \in Args :
        LET r == vec_get(v, pos)
        IN  \E junk \in JunkFor(r.out) :
                Method(Call("vec_get", 0, 1, pos, << >>, TRUE,
                            Resolve(r.out, junk), r.wrote), r.v)

VecSet ==
    /\ MayCall("vec_set")
    /\ \E pos \in Args :
        \E elem \in JunkSeqs(v.size) :
            Method(Call("vec_set", 0, 1, pos, elem, FALSE, << >>, FALSE),
                   vec_set(v, elem, pos))

VecAt ==
    /\ MayCall("vec_at")
    /\ \E pos \in Args :
        Method([Call("vec_at", 0, 1, pos, << >>, FALSE, << >>, FALSE)
                    EXCEPT !.ret = vec_at(v, pos)],
               v)

\* the positions a caller passes to vec_swap
Slots == 0 .. MaxBytes

\* tmp is the caller's buffer of one element
VecSwap ==
    /\ MayCall("vec_swap")
    /\ \E pos1 \in Slots, pos2 \in Slots :
        LET r == vec_swap(v, pos1, pos2)
        IN  \E junk \in JunkFor(r.tmp) :
                Method([Call("vec_swap", 0, 1, pos1, << >>, TRUE,
                             Resolve(r.tmp, junk), TRUE)
                            EXCEPT !.pos2 = pos2],
                       r.v)

\* the values a caller passes as order: descending, none, ascending
Orders == {0 - 1, 0, 1}

VecSort ==
    /\ MayCall("vec_sort")
    /\ \E order \in Orders :
        Method([Call("vec_sort", 0, 0, 0, << >>, FALSE, << >>, FALSE)
                    EXCEPT !.order = order],
               vec_sort(v, order))

Next ==
    \/ Return
    \/ VecNew
    \/ VecNewWith
    \/ VecInit
    \/ VecFrom
    \/ VecClear
    \/ VecReserve
    \/ VecShrinkToFit
    \/ VecPush
    \/ VecInsertN
    \/ VecRemoveN
    \/ VecPop
    \/ VecGet
    \/ VecSet
    \/ VecAt
    \/ VecSwap
    \/ VecSort

Spec == Init /\ [][Next]_vars

\* ------------------------------------------------------------ iteration
\* most vec_iter calls followed in one run on v
MaxCalls == 6

\* vec_iter(NULL, elem)
VecIterReset ==
    /\ Idle
    /\ LET r == vec_iter(TRUE, NoVec, cursor)
       IN  /\ cursor' = r.i
           /\ call' = [Call("vec_iter", 0, 1, cursor, << >>, TRUE, r.out, r.wrote)
                           EXCEPT !.ret = r.ret, !.obj = "none"]
    /\ run' = 0
    /\ pre' = NoVec /\ hist' = << >>
    /\ UNCHANGED <<v, stride0, avars, w>>

\* vec_iter(&v, elem)
VecIter ==
    /\ Idle
    /\ ~v.ub /\ v.len <= v.cap
    /\ run < MaxCalls
    /\ LET r == vec_iter(FALSE, v, cursor)
       IN  /\ cursor' = r.i
           /\ v' = r.v
           /\ \E junk \in JunkFor(r.out) :
                  call' = [Call("vec_iter", 0, 1, cursor, << >>, TRUE,
                                Resolve(r.out, junk), r.wrote)
                              EXCEPT !.ret = r.ret]
    /\ run' = IF run = NoRun THEN NoRun ELSE run + 1
    /\ pre' = v /\ hist' = << >>
    /\ UNCHANGED <<stride0, avars, w>>

\* vec_new(&w, size), once
VecNewOther ==
    /\ Idle
    /\ w = NoVec
    /\ \E size \in Sizes :
        /\ w' = vec_new(w, size)
        /\ call' = [Call("vec_new", size, 0, 0, << >>, FALSE, << >>, FALSE)
                        EXCEPT !.obj = "w"]
    /\ pre' = NoVec /\ hist' = << >>
    /\ UNCHANGED <<v, stride0, avars, cursor, run>>

\* vec_push(&w, elem)
VecPushOther ==
    /\ Idle
    /\ w # NoVec
    /\ \E elem \in JunkSeqs(w.size) :
        LET nw == vec_push(w, elem)
        IN  /\ Fits(nw)
            /\ \E junk \in JunkFor(nw.ptr) : w' = [nw EXCEPT !.ptr = Resolve(nw.ptr, junk)]
            /\ call' = [Call("vec_push", 0, 1, w.len, elem, FALSE, << >>, FALSE)
                            EXCEPT !.obj = "w"]
    /\ pre' = w /\ hist' = << >>
    /\ UNCHANGED <<v, stride0, avars, cursor, run>>

\* vec_iter(&w, elem)
VecIterOther ==
    /\ Idle
    /\ w # NoVec
    /\ LET r == vec_iter(FALSE, w, cursor)
       IN  /\ cursor' = r.i
           /\ w' = r.v
           /\ \E junk \in JunkFor(r.out) :
                  call' = [Call("vec_iter", 0, 1, cursor, << >>, TRUE,
                                Resolve(r.out, junk), r.wrote)
                              EXCEPT !.ret = r.ret, !.obj = "w"]
    /\ run' = NoRun
    /\ pre' = w /\ hist' = << >>
    /\ UNCHANGED <<v, stride0, avars>>

NextIter ==
    \/ Return
    \/ VecPush
    \/ VecIterReset
    \/ VecIter
    \/ VecNewOther
    \/ VecPushOther
    \/ VecIterOther

SpecIter == Init /\ [][NextIter]_vars

\* ------------------------------------------------------------ arena calls
\* every Indet payload byte of the heap holds some byte
SettleHeap(hp, junk) ==
    [a \in Addrs |-> [hp[a] EXCEPT !.data = Resolve(hp[a].data, junk)]]

AReturns(c, r) ==
    /\ \E junk \in JunkSeqs(MaxPayload) : heap' = SettleHeap(r.heap, junk)
    /\ head' = r.head
    /\ acall' = c
    /\ apre' = [head |-> head, heap |-> heap]
    /\ UNCHANGED <<vvars, ivars>>

ArenaReturn ==
    /\ ~AIdle
    /\ acall' = NoACall /\ apre' = NoArena
    /\ UNCHANGED <<head, heap, vvars, ivars>>

\* malloc hands out a free address; one is kept free so that realloc may move
ArenaAlloc ==
    /\ AIdle \/ acall.op = "arena_free"
    /\ \E bytes \in Payloads, a \in FreeAddrs(heap) :
        /\ FreeAddrs(heap) # {a}
        /\ LET r == arena_alloc(head, heap, bytes, a)
           IN  AReturns([ACall("arena_alloc", bytes, NULL, r.ret, << >>)
                            EXCEPT !.after = acall.op], r)

\* the caller passes any pointer: a payload pointer, a stale one, NULL, or
\* the pointer a previous arena_realloc returned
ArenaRealloc ==
    /\ AIdle
    /\ \E bytes \in Payloads, p \in {a + HDR : a \in Addrs} \cup {NULL, NULL + HDR} :
        LET found == head # NULL /\ Scan(NULL, head, p - HDR, heap).curr # NULL
        IN  \E a \in IF found THEN FreeAddrs(heap) \cup {p - HDR} ELSE {NULL} :
                LET r == arena_realloc(head, heap, bytes, p, a)
                IN  AReturns(ACall("arena_realloc", bytes, p, r.ret, << >>), r)

ArenaFree ==
    /\ AIdle
    /\ LET r == arena_free(head, heap)
       IN  AReturns(ACall("arena_free", 0, NULL, NULL, r.freed), r)

NextArena ==
    \/ ArenaReturn
    \/ ArenaAlloc
    \/ ArenaRealloc
    \/ ArenaFree

SpecArena == Init /\ [][NextArena]_vars

\* ------------------------------------------------------------ views
\* element i (0-based) of x, as bytes
Elem(x, i) == SubSeq(x.ptr, (i * x.size) + 1, (i + 1) * x.size)

\* the stored sequence of x
Elems(x) == [i \in 1 .. x.len |-> Elem(x, i - 1)]

\* the elements a caller's buffer of bytes holds, for element size sz
Chunks(bytes, sz, n) == [i \in 1 .. n |-> SubSeq(bytes, ((i - 1) * sz) + 1, i * sz)]

\* the sequence a followed by b
Cat(a, b) == [i \in 1 .. (Len(a) + Len(b)) |-> IF i <= Len(a) THEN a[i] ELSE b[i - Len(a)]]

\* elements lo .. hi - 1 (0-based) of the sequence s
Slice(s, lo, hi) == [i \in 1 .. (hi - lo) |-> s[lo + i]]

\* the capacity the growth policy gives for a request of n slots
Policy(cap, n) ==
    IF n <= cap THEN cap
    ELSE IF cap = 0 THEN (IF n > 2 THEN n ELSE 2)
    ELSE IF n > 2 * cap THEN n
    ELSE 2 * cap

\* ------------------------------------------------------------ model sanity
\* between faults the block is cap * size bytes and every byte is settled
BlockShape ==
    /\ v.cap \in 0 .. MaxBytes
    /\ Len(v.ptr) = v.cap * v.size
    /\ \A k \in 1 .. Len(v.ptr) : v.ptr[k] \in Byte

\* ------------------------------------------------------------ claims
\* C2: after vec_from(v, size, arr, n) the array has stride size, length n,
\* capacity >= n, and element i equals arr[i] for every i < n.
C2_VecFromCopiesSource ==
    call.op = "vec_from" =>
        /\ v.size = call.size
        /\ v.len = call.n
        /\ v.cap >= call.n
        /\ Elems(v) = Chunks(call.elems, call.size, call.n)

\* C3: after vec_init(v, size, n) with n >= 1 the array has stride size,
\* length n, capacity >= n, the n elements are zero bytes, and nothing was
\* written outside the allocated block.
C3_VecInitZeroed ==
    (call.op = "vec_init" /\ call.n >= 1) =>
        /\ v.size = call.size
        /\ v.len = call.n
        /\ v.cap >= call.n
        /\ \A k \in 1 .. (call.n * call.size) : k <= Len(v.ptr) /\ v.ptr[k] = 0
        /\ ~v.ub

\* C4: in every state reached by the public operations, length <= capacity
\* and the stride is the one given at creation.
C4_LengthWithinCapacity == v.len <= v.cap /\ v.size = stride0

\* C5: vec_insert_n(v, E, n, pos) with pos <= L and n >= 1 turns the sequence S
\* into S[0..pos) ++ E ++ S[pos..L), of length L + n (vec_push is the case
\* n = 1, pos = L).
C5_InsertN ==
    (call.op \in {"vec_insert_n", "vec_push"} /\ call.pos <= pre.len /\ call.n >= 1) =>
        /\ v.len = pre.len + call.n
        /\ Elems(v) = Cat(Cat(Slice(Elems(pre), 0, call.pos),
                              Chunks(call.elems, pre.size, call.n)),
                          Slice(Elems(pre), call.pos, pre.len))

\* three elements, then one inserted at position 1: [a, e, b, c]
C5_Witness ==
    /\ call.op = "vec_insert_n" /\ call.n = 1 /\ call.pos = 1
    /\ pre.len = 3 /\ v.len = 4
    /\ Elem(v, 1) = call.elems /\ Elem(pre, 1) # call.elems
    /\ Elem(v, 2) = Elem(pre, 1)

\* C6: vec_remove_n(v, pos, out, n) with n >= 1 and pos + n <= L turns S into
\* S[0..pos) ++ S[pos+n..L), of length L - n, keeps the capacity, and out (when
\* given) holds S[pos..pos+n).
C6_RemoveN ==
    (call.op = "vec_remove_n" /\ call.n >= 1 /\ call.pos + call.n <= pre.len) =>
        /\ v.len = pre.len - call.n
        /\ v.cap = pre.cap
        /\ Elems(v) = Cat(Slice(Elems(pre), 0, call.pos),
                          Slice(Elems(pre), call.pos + call.n, pre.len))
        /\ call.dst =>
               /\ call.wrote
               /\ Chunks(call.out, pre.size, call.n)
                      = Slice(Elems(pre), call.pos, call.pos + call.n)

\* a span removed from the front of a longer array, copied out
C6_Witness ==
    /\ call.op = "vec_remove_n" /\ call.dst /\ call.n = 2 /\ call.pos = 0
    /\ pre.len = 3 /\ v.len = 1
    /\ Elem(pre, 0) # Elem(pre, 2) /\ Elem(v, 0) = Elem(pre, 2)

\* C7: vec_remove_n(v, pos, out, n) whose span [pos, pos+n) is empty or does not
\* lie inside [0, L) changes nothing: not the length, the capacity, the
\* elements, nor a byte of out.
C7_RemoveOutOfRangeIsNoOp ==
    (call.op = "vec_remove_n" /\ (call.n = 0 \/ call.pos + call.n > pre.len)) =>
        /\ v = pre
        /\ call.out = << >>

\* C8: after vec_reserve(v, n) the capacity is >= n and not smaller than
\* before, and the length and the elements are unchanged.
C8_Reserve ==
    call.op = "vec_reserve" =>
        /\ v.cap >= call.n
        /\ v.cap >= pre.cap
        /\ v.len = pre.len
        /\ Elems(v) = Elems(pre)

\* a reserve that had to move to a bigger block with elements in it
C8_Witness ==
    /\ call.op = "vec_reserve" /\ call.n > pre.cap
    /\ pre.len >= 2 /\ Len(v.ptr) > Len(pre.ptr)

\* C9: vec_reserve(v, n) sets the capacity by the growth policy: unchanged
\* when n <= capacity, max(n, 2) from capacity 0, n when n > 2 * capacity,
\* 2 * capacity otherwise; vec_push and vec_insert_n reserve length + n.
C9_GrowthPolicy ==
    /\ call.op = "vec_reserve" => v.cap = Policy(pre.cap, call.n)
    /\ (call.op \in {"vec_insert_n", "vec_push"} /\ call.pos <= pre.len) =>
           v.cap = Policy(pre.cap, pre.len + call.n)

\* a request beyond twice a nonzero capacity, served exactly
C9_Witness ==
    /\ call.op = "vec_reserve" /\ pre.cap > 0 /\ call.n > 2 * pre.cap
    /\ v.cap = call.n

\* C10: vec_insert_n(v, E, n, pos) with pos <= L, n >= 1, followed by
\* vec_remove_n(v, pos, out, n), restores the sequence S and the length L, and
\* out equals E.
C10_InsertThenRemove ==
    (/\ call.op = "vec_remove_n" /\ call.dst
     /\ hist # << >>
     /\ hist[1].call.pos <= hist[1].pre.len /\ hist[1].call.n >= 1) =>
        /\ v.len = hist[1].pre.len
        /\ Elems(v) = Elems(hist[1].pre)
        /\ call.out = hist[1].call.elems

\* two elements inserted in the middle and taken out again
C10_Witness ==
    /\ call.op = "vec_remove_n" /\ call.dst
    /\ hist # << >>
    /\ hist[1].call.n = 2 /\ hist[1].call.pos = 1 /\ hist[1].pre.len = 2
    /\ v.len = 2 /\ pre.len = 4

\* C11: vec_push(v, e) followed by vec_pop(v, out) yields out = e, the length
\* it had before the push and the elements that were there before the push,
\* from every array state; vec_pop on an array of length 0 changes nothing.
C11_PushThenPop ==
    /\ (call.op = "vec_pop" /\ hist # << >>) =>
           /\ call.dst => (call.wrote /\ call.out = hist[1].call.elems)
           /\ v.len = hist[1].pre.len
           /\ Elems(v) = Elems(hist[1].pre)
    /\ (call.op = "vec_pop" /\ pre.len = 0) =>
           /\ v = pre
           /\ ~call.wrote /\ call.out = << >>

\* a push onto a full array of two elements (the block had to grow), popped
\* again into out
C11_Witness ==
    /\ call.op = "vec_pop" /\ call.dst /\ hist # << >>
    /\ hist[1].pre.len = 2 /\ hist[1].pre.cap = 2
    /\ pre.len = 3 /\ pre.cap = 4 /\ v.len = 2
    /\ call.out # Elem(pre, 0)

\* C12: vec_shrink_to_fit(v) leaves capacity = length, whatever calls built
\* the array (also at length 0, at length = capacity and with nothing
\* allocated), and keeps the length and the stored elements.
C12_ShrinkToFit ==
    call.op = "vec_shrink_to_fit" =>
        /\ v.cap = v.len
        /\ v.len = pre.len
        /\ Elems(v) = Elems(pre)

\* three elements in a block of four slots, cut down to three
C12_Witness ==
    /\ call.op = "vec_shrink_to_fit"
    /\ pre.len = 3 /\ pre.cap = 4 /\ v.cap = 3
    /\ Elem(v, 0) # Elem(v, 2)

\* a <= b in the bytewise order: equal, or smaller at the first byte that
\* differs
BytesLeq(a, b) ==
    \/ a = b
    \/ \E k \in 1 .. Len(a) : a[k] < b[k] /\ \A j \in 1 .. (k - 1) : a[j] = b[j]

\* the sequence s is nondecreasing (order > 0) or nonincreasing (order < 0)
Sorted(s, order) ==
    \A i \in 1 .. (Len(s) - 1) :
        IF order > 0 THEN BytesLeq(s[i], s[i + 1]) ELSE BytesLeq(s[i + 1], s[i])

\* how often e occurs in the sequence s
Count(s, e) == Cardinality({i \in 1 .. Len(s) : s[i] = e})

\* C13: after vec_sort(v, order) the elements are nondecreasing in the bytewise
\* order when order > 0 and nonincreasing when order < 0; they are a
\* permutation of the elements before, length and capacity are unchanged, and
\* an array already sorted in that order is left as it was.
C13_Sort ==
    (call.op = "vec_sort" /\ call.order # 0) =>
        /\ Sorted(Elems(v), call.order)
        /\ v.len = pre.len /\ v.cap = pre.cap
        /\ \A i \in 1 .. pre.len : Count(Elems(v), Elems(pre)[i]) = Count(Elems(pre), Elems(pre)[i])
        /\ Sorted(Elems(pre), call.order) => Elems(v) = Elems(pre)

\* three elements out of order, the largest first, sorted ascending
C13_Witness ==
    /\ call.op = "vec_sort" /\ call.order > 0
    /\ pre.len = 3 /\ ~Sorted(Elems(pre), call.order)
    /\ Elem(pre, 0) # Elem(pre, 1) /\ Elem(pre, 1) # Elem(pre, 2)
    /\ Elems(v) # Elems(pre)

\* C14: after a reset, call number k of the successive vec_iter(v, out) calls
\* on the unmodified array of length L returns YES and delivers element k - 1
\* when k <= L, and returns NO without writing out when k > L.
C14_IterInOrder ==
    (call.op = "vec_iter" /\ call.obj = "v" /\ run # NoRun) =>
        /\ run <= v.len =>
               /\ call.ret = YES
               /\ call.wrote /\ call.out = Elem(v, run - 1)
        /\ run > v.len =>
               /\ call.ret = NO
               /\ ~call.wrote /\ call.out = << >>
        /\ v = pre

\* the second call after the array of three elements was exhausted
C14_Witness ==
    /\ call.op = "vec_iter" /\ call.obj = "v"
    /\ v.len = 3 /\ run = 5 /\ call.ret = NO
    /\ Elem(v, 0) # Elem(v, 1)

\* a vec_iter call on the array x starts at the cursor as it stands
IterStep(x) ==
    IF cursor < x.len
    THEN /\ call'.ret = YES
         /\ call'.wrote /\ call'.out = Elem(x, cursor)
         /\ cursor' = cursor + 1
    ELSE /\ call'.ret = NO
         /\ ~call'.wrote
         /\ cursor' = cursor

C20_Step ==
    /\ (call'.op = "vec_iter" /\ call'.obj = "v") => IterStep(v)
    /\ (call'.op = "vec_iter" /\ call'.obj = "w") => IterStep(w)
    /\ cursor' # cursor =>
           /\ call'.op = "vec_iter"
           /\ cursor' = IF call'.obj = "none" THEN 0 ELSE cursor + 1

\* C20: the cursor is one index shared by all arrays.  A vec_iter call on
\* any array starts at the index the cursor holds, whichever array advanced
\* it: it delivers that array's element at the cursor and adds one, or
\* reports exhaustion when the array's length is <= the cursor; no call but
\* a reset sets the cursor back, and a reset sets it to 0.
C20_SharedCursor == [][C20_Step]_vars

\* w holds two elements and the cursor stands at 3, where only calls on v
\* can have taken it (w never shrinks): the call on w reports exhaustion at
\* once
C20_Witness ==
    /\ call.op = "vec_iter" /\ call.obj = "w"
    /\ pre.len = 2 /\ call.pos = 3 /\ cursor = 3
    /\ call.ret = NO
    /\ v.len >= 3

\* C15: arena_free passes every node of the list to free() exactly once and
\* leaves head empty; on an empty arena it does nothing; arena_alloc right
\* after arena_free gives a list of exactly the one new node.
C15_FreeReleasesAll ==
    /\ acall.op = "arena_free" =>
           LET lst == ListFrom(apre.head, apre.heap)
           IN  /\ head = NULL
               /\ Len(acall.freed) = Len(lst)
               /\ \A i \in 1 .. Len(lst) :
                      /\ Count(acall.freed, lst[i]) = 1
                      /\ ~heap[lst[i]].live
               /\ apre.head = NULL => (heap = apre.heap /\ acall.freed = << >>)
    /\ (acall.op = "arena_alloc" /\ acall.after = "arena_free") =>
           /\ ListFrom(head, heap) = <<acall.ret - HDR>>
           /\ heap[head].live /\ Len(heap[head].data) = acall.bytes

\* a list of three nodes released
C15_Witness ==
    /\ acall.op = "arena_free"
    /\ Len(ListFrom(apre.head, apre.heap)) = 3
    /\ Len(acall.freed) = 3 /\ acall.freed[3] = apre.head

\* an allocation made right after the list was released
C15_WitnessAllocAfterFree ==
    /\ acall.op = "arena_alloc" /\ acall.after = "arena_free"
    /\ apre.head = NULL /\ head # NULL

\* of a live node
PayloadAt(hp, p) ==
    IF (p - HDR) \in Addrs /\ hp[p - HDR].live THEN hp[p - HDR].data ELSE << >>

\* position (1-based) of node a in the list lst, 0 when absent
IndexOf(lst, a) ==
    IF \E i \in 1 .. Len(lst) : lst[i] = a
    THEN CHOOSE i \in 1 .. Len(lst) : lst[i] = a
    ELSE 0

Min(a, b) == IF a <= b THEN a ELSE b

\* C16: arena_realloc on an empty arena, or with a pointer that is the payload
\* address of no node of the list, returns NULL and leaves head and every
\* node as they were.
C16_ReallocNotFound ==
    (/\ acall.op = "arena_realloc"
     /\ IndexOf(ListFrom(apre.head, apre.heap), acall.p - HDR) = 0) =>
        /\ acall.ret = NULL
        /\ head = apre.head
        /\ heap = apre.heap

\* a stale payload pointer passed to an arena of two nodes
C16_Witness ==
    /\ acall.op = "arena_realloc"
    /\ Len(ListFrom(apre.head, apre.heap)) = 2
    /\ (acall.p - HDR) \in Addrs
    /\ IndexOf(ListFrom(apre.head, apre.heap), acall.p - HDR) = 0
    /\ acall.ret = NULL

\* C19: when arena_realloc finds the node, the list keeps its number of nodes
\* and their order, the resized node stands where the old one stood, and
\* every other node keeps its address and payload; arena_alloc links the new
\* node at the head, in front of the unchanged list.
C19_ReallocKeepsPosition ==
    /\ (/\ acall.op = "arena_realloc"
        /\ IndexOf(ListFrom(apre.head, apre.heap), acall.p - HDR) # 0) =>
           LET old == ListFrom(apre.head, apre.heap)
               new == ListFrom(head, heap)
               i == IndexOf(old, acall.p - HDR)
           IN  /\ Len(new) = Len(old)
               /\ heap[new[i]].live /\ Len(heap[new[i]].data) = acall.bytes
               /\ \A j \in 1 .. Len(old) :
                      j # i => /\ new[j] = old[j]
                               /\ new[j] # new[i]
                               /\ heap[new[j]].live
                               /\ heap[new[j]].data = apre.heap[old[j]].data
    /\ acall.op = "arena_alloc" =>
           LET old == ListFrom(apre.head, apre.heap)
           IN  /\ ListFrom(head, heap) = <<acall.ret - HDR>> \o old
               /\ \A j \in 1 .. Len(old) :
                      heap[old[j]].live /\ heap[old[j]].data = apre.heap[old[j]].data

\* the middle node of three moved to another address by realloc
C19_Witness ==
    /\ acall.op = "arena_realloc"
    /\ Len(ListFrom(apre.head, apre.heap)) = 3
    /\ IndexOf(ListFrom(apre.head, apre.heap), acall.p - HDR) = 2
    /\ ListFrom(head, heap)[2] # acall.p - HDR
    /\ ListFrom(head, heap)[1] = apre.head

\* C17: vec_insert_n with pos > length, and vec_get, vec_set and vec_at with
\* pos >= length, change nothing of the array; vec_get then leaves its
\* output slot unwritten and vec_at returns NULL.
C17_OutOfRangeIsNoOp ==
    /\ (call.op = "vec_insert_n" /\ call.pos > pre.len) => v = pre
    /\ (call.op \in {"vec_get", "vec_set", "vec_at"} /\ call.pos >= pre.len) => v = pre
    /\ (call.op = "vec_get" /\ call.pos >= pre.len) =>
           (~call.wrote /\ call.out = << >>)
    /\ (call.op = "vec_at" /\ call.pos >= pre.len) => call.ret = NULL

\* vec_set aimed at the first slot behind the last element, which lies in
\* the block and holds other bytes than the element passed
C17_Witness ==
    /\ call.op = "vec_set"
    /\ pre.len >= 1 /\ call.pos = pre.len /\ pre.cap > pre.len
    /\ call.elems # Elem(pre, call.pos)
    /\ v = pre

\* vec_swap(v, pos1, pos2, tmp) with both positions below the length
\* exchanges the two elements and keeps the others, length and capacity
SwapInRange ==
    (call.op = "vec_swap" /\ call.pos < pre.len /\ call.pos2 < pre.len) =>
        /\ v.len = pre.len /\ v.cap = pre.cap
        /\ Elem(v, call.pos) = Elem(pre, call.pos2)
        /\ Elem(v, call.pos2) = Elem(pre, call.pos)
        /\ \A i \in 0 .. (pre.len - 1) :
               (i # call.pos /\ i # call.pos2) => Elem(v, i) = Elem(pre, i)
        /\ ~v.ub

\* C18: vec_swap(v, pos1, pos2, tmp) with pos1 >= length or pos2 >= length
\* changes nothing and reads or writes no slot at an index >= length or
\* outside the block (so tmp receives nothing); with both positions below
\* the length it exchanges exactly the two elements.
C18_SwapRangeChecked ==
    /\ (call.op = "vec_swap" /\ (call.pos >= pre.len \/ call.pos2 >= pre.len)) =>
           /\ v = pre
           /\ ~call.wrote
    /\ SwapInRange

\* C1: arena_realloc(arena, bytes, p) on the payload pointer p of a node in
\* the list returns the payload pointer of the resized node, at any list
\* position, and the first min(old, new) bytes are read through it.
C1_ReallocReturnsResizedNode ==
    (/\ acall.op = "arena_realloc"
     /\ IndexOf(ListFrom(apre.head, apre.heap), acall.p - HDR) # 0) =>
        LET i == IndexOf(ListFrom(apre.head, apre.heap), acall.p - HDR)
            keep == Min(Len(apre.heap[acall.p - HDR].data), acall.bytes)
        IN  /\ acall.ret = ListFrom(head, heap)[i] + HDR
            /\ SubSeq(PayloadAt(heap, acall.ret), 1, keep)
                   = SubSeq(apre.heap[acall.p - HDR].data, 1, keep)

====
